---------------------------- MODULE Spec2Model ----------------------------
(***************************************************************************)
(* Model of OpenTelemetryExtension (opentelemetry_extension/extension.py): *)
(* the two pipeline hooks add_request_tracing ("begin") and                *)
(* finish_request_tracing ("end"), the span registry span_map, and         *)
(* on_platform_ready, which configures tracer and propagator.              *)
(*                                                                         *)
(* Every hook invocation is a worker with a program counter, so that the   *)
(* hooks of different request-response pairs, duplicate invocations of     *)
(* end, and on_platform_ready interleave statement group by statement      *)
(* group.  The propagator is the global text map of OpenTelemetry (W3C     *)
(* trace context followed by W3C baggage); the tracer is the SDK tracer    *)
(* with its default sampler (parent based, always on).  Span and trace ids *)
(* come from the id generator, modelled as a source of fresh ids.          *)
(* The tracestate header is not modelled: it travels with a valid          *)
(* traceparent and decides nothing in the extension.                       *)
(***************************************************************************)
EXTENDS Naturals, FiniteSets

\* Number of request-response pairs that pass through the pipeline.
NPairs == 2

\* Number of workers that may run finish_request_tracing at the same time.
MaxEnds == 2

Pairs == 1..NPairs

EndWorkers == 1..MaxEnds

\* Trace id and span id of a context made outside this process; the id
\* generator hands out 1..NPairs, one id per span.
ExternalTraceId == NPairs + 1

ExternalSpanId == NPairs + 2

(***************************************************************************)
(* Header values.  A traceparent value is "<ver>-<trace id>-<span id>-     *)
(* <flags>", possibly surrounded by blanks (ws) and followed by "-<more>"  *)
(* (extra); ver "absent" is a missing header, ver "garbage" a value the    *)
(* format's regular expression rejects.                                    *)
(***************************************************************************)
AbsentTraceparent ==
    [ver |-> "absent", tid |-> 0, sid |-> 0, flags |-> 0, ws |-> FALSE, extra |-> FALSE]

GarbageTraceparent ==
    [ver |-> "garbage", tid |-> 0, sid |-> 0, flags |-> 0, ws |-> FALSE, extra |-> FALSE]

\* SpanContext of INVALID_SPAN: all zero.
INVALID_SPAN_CONTEXT == [tid |-> 0, sid |-> 0, flags |-> 0]

\* Context(): the empty context, falsy in Python.
EmptyContext == [span |-> INVALID_SPAN_CONTEXT, baggage |-> FALSE]

EmptyHeaders == [traceparent |-> AbsentTraceparent, baggage |-> FALSE]

\* span_map.pop(key, None) found nothing.
NoEntry == [span |-> 0, ctx |-> EmptyContext]

\* TraceContextTextMapPropagator.extract: the span context of a traceparent
\* value, INVALID_SPAN_CONTEXT when the header is missing or rejected.
ParseTraceparent(tp) ==
    IF tp.ver \in {"absent", "garbage", "ff"} THEN INVALID_SPAN_CONTEXT
    ELSE IF tp.ver = "00" /\ tp.extra THEN INVALID_SPAN_CONTEXT
    ELSE IF tp.tid = 0 \/ tp.sid = 0 THEN INVALID_SPAN_CONTEXT
    ELSE [tid |-> tp.tid, sid |-> tp.sid, flags |-> tp.flags]

\* TraceContextTextMapPropagator.inject: the traceparent string of a span
\* context, always version 00, no blanks, nothing after the flags.
FormatTraceparent(sc) ==
    [ver |-> "00", tid |-> sc.tid, sid |-> sc.sid, flags |-> sc.flags,
     ws |-> FALSE, extra |-> FALSE]

\* propagator.extract(headers): trace context first, then baggage.
Extract(headers) ==
    [span |-> ParseTraceparent(headers.traceparent), baggage |-> headers.baggage]

\* propagator.inject(headers, context): writes traceparent only for a valid
\* span context and baggage only when there is some; removes nothing.
Inject(headers, context) ==
    [traceparent |-> IF context.span = INVALID_SPAN_CONTEXT
                     THEN headers.traceparent
                     ELSE FormatTraceparent(context.span),
     baggage |-> headers.baggage \/ context.baggage]

\* Python truth of a Context (a dict): false exactly when empty.
Truthy(context) == context # EmptyContext

\* A fresh id from the id generator, n being the generator's state.
StuckSpanId(n) == 1

GenerateSpanId(n) == n

\* tracer.start_span(name, context): a span context that continues the
\* parent's trace when the context holds a valid span, else starts a trace;
\* the default sampler samples a root and follows the parent's sampled flag.
StartSpan(name, context, n) ==
    LET parent == context.span
        isRoot == parent = INVALID_SPAN_CONTEXT
    IN  [name   |-> name,
         parent |-> parent.sid,
         sc     |-> [tid   |-> IF isRoot THEN GenerateSpanId(n) ELSE parent.tid,
                     sid   |-> GenerateSpanId(n),
                     flags |-> IF isRoot THEN 1 ELSE parent.flags % 2],
         ends   |-> 0]

\* set_span_in_context(span, context)
KeepsParentSpan(span, context) == context

SetSpanInContext(span, context) == [context EXCEPT !.span = span.sc]

\* The value stored in span_map: (span, trace_context).
EntryOfNewContext(sid, trace_context, new_context) ==
    [span |-> sid, ctx |-> new_context]

PendingEntry(sid, trace_context, new_context) ==
    [span |-> sid, ctx |-> trace_context]

\* dict.pop(key, None): the value returned ...
PopAnyEntry(map, key) ==
    IF key \in DOMAIN map THEN map[key]
    ELSE IF DOMAIN map # {} THEN map[CHOOSE k \in DOMAIN map : TRUE]
    ELSE NoEntry

PopResult(map, key) == IF key \in DOMAIN map THEN map[key] ELSE NoEntry

\* ... and the dict that remains.
PopKeepsKey(map, key) == map

PopRestByTrace(map, key) == [k \in {j \in DOMAIN map : j.tid # key.tid} |-> map[k]]

PopRest(map, key) == [k \in DOMAIN map \ {key} |-> map[k]]

\* dict[key] = value
Put(map, key, value) ==
    [k \in DOMAIN map \cup {key} |-> IF k = key THEN value ELSE map[k]]


VARIABLES
    tracer,      \* self.tracer is set (TRUE) or None (FALSE)
    propagator,  \* the attribute self.propagator exists
    span_map,    \* self.span_map: traceparent value -> (span, trace_context)
    spans,       \* the spans the tracer has started, by span id
    nextId,      \* state of the id generator
    ctxs,        \* per pair: which of ctx.request, ctx.service, ctx.operation are there
    reqh,        \* per pair: ctx.request.headers
    resph,       \* per pair: response.headers
    incoming,    \* per pair: the request headers as they arrived (history)
    bpc,         \* per pair: position of its add_request_tracing invocation
    btc,         \* per pair: local trace_context of add_request_tracing
    bspan,       \* per pair: local span of add_request_tracing (0: none yet)
    epc,         \* per end worker: position in finish_request_tracing
    epair,       \* per end worker: the pair whose response it was handed
    etp,         \* per end worker: local traceparent
    eres,        \* per end worker: local res
    edup,        \* per end worker: started after the pair's entry was retired (history)
    retired,     \* pairs whose own entry an end invocation popped and finished (history)
    attempted,   \* traceparent values span_map.pop was called with (history)
    egressed     \* pairs with a span whose response was handed to end (history)

vars == <<tracer, propagator, span_map, spans, nextId, ctxs, reqh, resph, incoming,
          bpc, btc, bspan, epc, epair, etp, eres, edup, retired, attempted, egressed>>

engine == <<tracer, propagator>>

registry == <<span_map, spans, nextId>>

pairvars == <<ctxs, reqh, resph, incoming>>

beginvars == <<bpc, btc, bspan>>

endvars == <<epc, epair, etp, eres, edup>>

history == <<retired, attempted, egressed>>

FullCtx == [request |-> TRUE, service |-> TRUE, operation |-> TRUE]

\* A canonical, sampled traceparent made by an external caller.
ExternalTraceparent ==
    [ver |-> "00", tid |-> ExternalTraceId, sid |-> ExternalSpanId, flags |-> 1,
     ws |-> FALSE, extra |-> FALSE]

\* A valid traceparent that is not in canonical form: a later version,
\* surrounded by blanks, with a further field, not sampled.
NonCanonicalTraceparent ==
    [ver |-> "01", tid |-> ExternalTraceId, sid |-> ExternalSpanId, flags |-> 0,
     ws |-> TRUE, extra |-> TRUE]

\* Values the format rejects: no match at all, version 00 with a further field.
RejectedTraceparents ==
    { GarbageTraceparent, [ExternalTraceparent EXCEPT !.extra = TRUE] }

\* What the pipeline hands to the hooks for a request from outside.
ExternalInputs ==
    { [ctx |-> FullCtx, headers |-> [traceparent |-> tp, baggage |-> FALSE]] :
        tp \in {AbsentTraceparent, NonCanonicalTraceparent} \cup RejectedTraceparents }
    \cup
    { [ctx |-> FullCtx, headers |-> [traceparent |-> AbsentTraceparent, baggage |-> TRUE]] }
    \cup
    { [ctx |-> [FullCtx EXCEPT ![f] = FALSE],
       headers |-> IF f = "request" THEN EmptyHeaders
                   ELSE [traceparent |-> ExternalTraceparent, baggage |-> FALSE]] :
        f \in {"request", "service", "operation"} }

\* A downstream call made while pair q is being served carries q's request
\* headers, that is the context add_request_tracing injected for q.
ForwardedInputs ==
    { [ctx |-> FullCtx, headers |-> reqh[q]] :
        q \in {r \in Pairs : bpc[r] = "done" /\ bspan[r] # 0} }

Init ==
    /\ tracer = FALSE
    /\ propagator = FALSE
    /\ span_map = [k \in {} |-> NoEntry]
    /\ spans = [s \in {} |-> 0]
    /\ nextId = 1
    /\ ctxs = [p \in Pairs |-> FullCtx]
    /\ reqh = [p \in Pairs |-> EmptyHeaders]
    /\ resph = [p \in Pairs |-> EmptyHeaders]
    /\ incoming = [p \in Pairs |-> EmptyHeaders]
    /\ bpc = [p \in Pairs |-> "idle"]
    /\ btc = [p \in Pairs |-> EmptyContext]
    /\ bspan = [p \in Pairs |-> 0]
    /\ epc = [w \in EndWorkers |-> "idle"]
    /\ epair = [w \in EndWorkers |-> 1]
    /\ etp = [w \in EndWorkers |-> AbsentTraceparent]
    /\ eres = [w \in EndWorkers |-> NoEntry]
    /\ edup = [w \in EndWorkers |-> FALSE]
    /\ retired = {}
    /\ attempted = {}
    /\ egressed = {}

\* on_platform_ready up to line 75: self.tracer = trace.get_tracer(...)
on_platform_ready_tracer ==
    /\ ~tracer
    /\ tracer' = TRUE
    /\ UNCHANGED <<propagator, registry, pairvars, beginvars, endvars, history>>

\* on_platform_ready line 76: self.propagator = propagate.get_global_textmap()
on_platform_ready_propagator ==
    /\ tracer /\ ~propagator
    /\ propagator' = TRUE
    /\ UNCHANGED <<tracer, registry, pairvars, beginvars, endvars, history>>

\* The pipeline receives a request and creates its response; pairs are
\* interchangeable, so they arrive in the order of their numbers.
Arrive(p) ==
    /\ bpc[p] = "idle"
    /\ \A q \in Pairs : q < p => bpc[q] # "idle"
    /\ \E in \in ExternalInputs \cup ForwardedInputs :
         /\ ctxs' = [ctxs EXCEPT ![p] = in.ctx]
         /\ reqh' = [reqh EXCEPT ![p] = in.headers]
         /\ incoming' = [incoming EXCEPT ![p] = in.headers]
    /\ bpc' = [bpc EXCEPT ![p] = "check"]
    /\ UNCHANGED <<engine, registry, resph, btc, bspan, endvars, history>>

\* add_request_tracing lines 103-110: the early exits.
BeginSkipsTracerCheck(p) ==
    ~ctxs[p].request \/ ~ctxs[p].service \/ ~ctxs[p].operation

BeginSkipsOperationCheck(p) ==
    ~tracer \/ ~ctxs[p].request \/ ~ctxs[p].service

BeginEarlyExit(p) ==
    ~tracer \/ ~ctxs[p].request \/ ~ctxs[p].service \/ ~ctxs[p].operation

add_request_tracing_check(p) ==
    /\ bpc[p] = "check"
    /\ bpc' = [bpc EXCEPT ![p] = IF BeginEarlyExit(p) THEN "done" ELSE "extract"]
    /\ UNCHANGED <<engine, registry, pairvars, btc, bspan, endvars, history>>

\* add_request_tracing lines 112-133: extract, start_span, set_attributes,
\* set_span_in_context, inject.  Reading self.propagator before
\* on_platform_ready has assigned it raises AttributeError.
add_request_tracing_span(p) ==
    /\ bpc[p] = "extract"
    /\ IF ~propagator
       THEN /\ bpc' = [bpc EXCEPT ![p] = "raised"]
            /\ UNCHANGED <<registry, reqh, btc, bspan>>
       ELSE LET trace_context == Extract(reqh[p])
                span == StartSpan(IF Truthy(trace_context) THEN "service.operation"
                                  ELSE "root",
                                  trace_context, nextId)
                new_context == SetSpanInContext(span, trace_context)
            IN  /\ spans' = [s \in DOMAIN spans \cup {span.sc.sid} |->
                               IF s = span.sc.sid THEN span ELSE spans[s]]
                /\ nextId' = nextId + 1
                /\ btc' = [btc EXCEPT ![p] = trace_context]
                /\ bspan' = [bspan EXCEPT ![p] = span.sc.sid]
                /\ reqh' = [reqh EXCEPT ![p] = Inject(reqh[p], new_context)]
                /\ bpc' = [bpc EXCEPT ![p] = "put"]
                /\ UNCHANGED span_map
    /\ UNCHANGED <<engine, ctxs, resph, incoming, endvars, history>>

\* add_request_tracing lines 134-138:
\*   self.span_map[headers["traceparent"]] = (span, trace_context)
\*   response.headers["traceparent"] = headers["traceparent"]
\* The response is not visible to any other invocation before the hook returns.
add_request_tracing_put(p) ==
    /\ bpc[p] = "put"
    /\ span_map' = Put(span_map, reqh[p].traceparent,
                       PendingEntry(bspan[p], btc[p],
                                    SetSpanInContext(spans[bspan[p]], btc[p])))
    /\ resph' = [resph EXCEPT ![p].traceparent = reqh[p].traceparent]
    /\ bpc' = [bpc EXCEPT ![p] = "done"]
    /\ UNCHANGED <<engine, spans, nextId, ctxs, reqh, incoming, btc, bspan, endvars, history>>

\* finish_request_tracing returns: the invocation and its locals are gone.
EndReturn(w) ==
    /\ epc' = [epc EXCEPT ![w] = "idle"]
    /\ epair' = [epair EXCEPT ![w] = 1]
    /\ etp' = [etp EXCEPT ![w] = AbsentTraceparent]
    /\ eres' = [eres EXCEPT ![w] = NoEntry]
    /\ edup' = [edup EXCEPT ![w] = FALSE]

\* The pipeline hands the response of pair p to finish_request_tracing once
\* add_request_tracing has returned for p, and may do so again (a duplicate
\* or retried egress).  Idle workers are interchangeable: the lowest one runs.
EndStart(w, p) ==
    /\ epc[w] = "idle"
    /\ \A v \in EndWorkers : v < w => epc[v] # "idle"
    /\ bpc[p] \in {"done", "raised"}
    /\ epc' = [epc EXCEPT ![w] = "check"]
    /\ epair' = [epair EXCEPT ![w] = p]
    /\ edup' = [edup EXCEPT ![w] = p \in retired]
    /\ egressed' = IF bspan[p] # 0 THEN egressed \cup {p} ELSE egressed
    /\ UNCHANGED <<engine, registry, pairvars, beginvars, etp, eres, retired, attempted>>

\* finish_request_tracing lines 143-147: the early exits.
EndEarlyExit(p) == ~tracer \/ ~ctxs[p].request

finish_request_tracing_check(w) ==
    /\ epc[w] = "check"
    /\ IF EndEarlyExit(epair[w])
       THEN EndReturn(w)
       ELSE /\ epc' = [epc EXCEPT ![w] = "extract"]
            /\ UNCHANGED <<epair, etp, eres, edup>>
    /\ UNCHANGED <<engine, registry, pairvars, beginvars, history>>

\* finish_request_tracing lines 149-155: extract from the response headers;
\* reading self.propagator before it is assigned raises AttributeError.
finish_request_tracing_extract(w) ==
    /\ epc[w] = "extract"
    /\ IF ~propagator
       THEN /\ epc' = [epc EXCEPT ![w] = "raised"]
            /\ UNCHANGED <<epair, etp, eres, edup>>
       ELSE IF ~Truthy(Extract(resph[epair[w]]))
       THEN EndReturn(w)
       ELSE /\ epc' = [epc EXCEPT ![w] = "get"]
            /\ UNCHANGED <<epair, etp, eres, edup>>
    /\ UNCHANGED <<engine, registry, pairvars, beginvars, history>>

\* finish_request_tracing line 157: traceparent = response.headers.get("traceparent")
finish_request_tracing_get(w) ==
    /\ epc[w] = "get"
    /\ etp' = [etp EXCEPT ![w] = resph[epair[w]].traceparent]
    /\ epc' = [epc EXCEPT ![w] = "pop"]
    /\ UNCHANGED <<engine, registry, pairvars, beginvars, epair, eres, edup, history>>

\* finish_request_tracing lines 158-160: res = self.span_map.pop(traceparent, None),
\* one atomic dict operation, and the return when there is no entry.
finish_request_tracing_pop(w) ==
    /\ epc[w] = "pop"
    /\ LET res == PopResult(span_map, etp[w])
       IN  /\ span_map' = PopRest(span_map, etp[w])
           /\ IF res = NoEntry
              THEN EndReturn(w)
              ELSE /\ eres' = [eres EXCEPT ![w] = res]
                   /\ epc' = [epc EXCEPT ![w] = "finish"]
                   /\ UNCHANGED <<epair, etp, edup>>
    /\ attempted' = attempted \cup {etp[w]}
    /\ UNCHANGED <<engine, spans, nextId, pairvars, beginvars, retired, egressed>>

\* finish_request_tracing line 166: the pair's two header maps after
\* self.propagator.inject(response.headers, old_context).
FinishInjectsRequest(request, response, old_context) ==
    [request |-> Inject(request, old_context), response |-> response]

FinishHeaders(request, response, old_context) ==
    [request |-> request, response |-> Inject(response, old_context)]

\* finish_request_tracing lines 162-166: span.end() and
\* self.propagator.inject(response.headers, old_context)
finish_request_tracing_finish(w) ==
    /\ epc[w] = "finish"
    /\ LET p == epair[w]
           span == eres[w].span
           old_context == eres[w].ctx
       IN  /\ spans' = [spans EXCEPT ![span].ends = @ + 1]
           /\ reqh' = [reqh EXCEPT ![p] = FinishHeaders(reqh[p], resph[p], old_context).request]
           /\ resph' = [resph EXCEPT ![p] = FinishHeaders(reqh[p], resph[p], old_context).response]
           /\ retired' = IF span = bspan[p] THEN retired \cup {p} ELSE retired
    /\ EndReturn(w)
    /\ UNCHANGED <<engine, span_map, nextId, ctxs, incoming, beginvars, attempted, egressed>>

Next ==
    \/ on_platform_ready_tracer
    \/ on_platform_ready_propagator
    \/ \E p \in Pairs : Arrive(p)
    \/ \E p \in Pairs : add_request_tracing_check(p)
    \/ \E p \in Pairs : add_request_tracing_span(p)
    \/ \E p \in Pairs : add_request_tracing_put(p)
    \/ \E w \in EndWorkers, p \in Pairs : EndStart(w, p)
    \/ \E w \in EndWorkers : finish_request_tracing_check(w)
    \/ \E w \in EndWorkers : finish_request_tracing_extract(w)
    \/ \E w \in EndWorkers : finish_request_tracing_get(w)
    \/ \E w \in EndWorkers : finish_request_tracing_pop(w)
    \/ \E w \in EndWorkers : finish_request_tracing_finish(w)

Spec == Init /\ [][Next]_vars

TypeOK ==
    /\ tracer \in BOOLEAN /\ propagator \in BOOLEAN
    /\ nextId \in 1..(NPairs + 1)
    /\ \A p \in Pairs : bpc[p] \in {"idle", "check", "extract", "put", "done", "raised"}
    /\ \A w \in EndWorkers :
         epc[w] \in {"idle", "check", "extract", "get", "pop", "finish", "raised"}

(***************************************************************************)
(* Properties                                                              *)
(***************************************************************************)

\* The correlation key add_request_tracing gave pair p.
KeyOf(p) == reqh[p].traceparent

\* add_request_tracing ran to its end for pair p without an early exit.
Begun(p) == bpc[p] = "done" /\ bspan[p] # 0

\* The request of pair p arrived with a valid trace context.
HasValidParent(p) == ParseTraceparent(incoming[p].traceparent) # INVALID_SPAN_CONTEXT

\* The canonical form of the context pair p arrived with.
CanonicalParent(p) == FormatTraceparent(ParseTraceparent(incoming[p].traceparent))

\* Worker w takes the step that leaves position pc.
Leaves(w, pc) == epc[w] = pc /\ epc'[w] # pc

C2_RootHeaderCleared ==
    \A p \in Pairs :
        (p \in retired /\ incoming[p] = EmptyHeaders)
        => resph[p].traceparent = AbsentTraceparent

\* C3 (at-most-once retirement): no span has end() called twice, no two end
\* invocations hold the entry of the same key, and a key that pop was called
\* with, by however many invocations, was popped by exactly one of them: its
\* span is ended once or is held by the one invocation about to end it.
C3_AtMostOnceRetirement ==
    /\ \A s \in DOMAIN spans : spans[s].ends <= 1
    /\ \A w1, w2 \in EndWorkers :
         (w1 # w2 /\ epc[w1] = "finish" /\ epc[w2] = "finish")
         => (etp[w1] # etp[w2] /\ eres[w1].span # eres[w2].span)
    /\ \A p \in Pairs :
         (Begun(p) /\ KeyOf(p) \in attempted)
         => /\ KeyOf(p) \notin DOMAIN span_map
            /\ spans[bspan[p]].ends
                 + Cardinality({w \in EndWorkers :
                                  epc[w] = "finish" /\ eres[w].span = bspan[p]}) = 1

\* Two end invocations run at once with the same key: one has popped the
\* entry, the other is about to call pop.
C3_Witness ==
    \E w1, w2 \in EndWorkers :
        /\ w1 # w2
        /\ epc[w1] = "finish" /\ epc[w2] = "pop"
        /\ etp[w1] = etp[w2]
        /\ etp[w2] \notin DOMAIN span_map

\* C4 (no key collision): pairs that were given a key have different keys,
\* each pending key maps to its own pair's span, after the begins and before
\* any pop the registry holds one entry per begun pair, and an end invocation
\* that read its pair's own key removes that entry only and ends that span
\* only.
C4_NoKeyCollision ==
    /\ [](/\ \A p, q \in Pairs :
               (p # q /\ bspan[p] # 0 /\ bspan[q] # 0) => KeyOf(p) # KeyOf(q)
          /\ \A p \in Pairs :
               (Begun(p) /\ KeyOf(p) \in DOMAIN span_map)
               => span_map[KeyOf(p)].span = bspan[p]
          /\ attempted = {}
               => Cardinality(DOMAIN span_map) = Cardinality({p \in Pairs : Begun(p)}))
    /\ [][\A w \in EndWorkers :
            /\ (Leaves(w, "pop") /\ etp[w] = KeyOf(epair[w]) /\ Begun(epair[w]))
               => /\ DOMAIN span_map' = DOMAIN span_map \ {KeyOf(epair[w])}
                  /\ \A k \in DOMAIN span_map' : span_map'[k] = span_map[k]
            /\ (Leaves(w, "finish") /\ eres[w].span = bspan[epair[w]])
               => \A s \in DOMAIN spans : s # bspan[epair[w]] => spans'[s] = spans[s]]_vars

\* Two pairs that arrived with the same valid parent context ran begin at the
\* same time (the later arrival got the earlier id) and both are pending.
C4_Witness ==
    \E p, q \in Pairs :
        /\ p < q /\ bspan[q] < bspan[p]
        /\ Begun(p) /\ Begun(q)
        /\ HasValidParent(p) /\ incoming[p] = incoming[q]
        /\ {KeyOf(p), KeyOf(q)} \subseteq DOMAIN span_map
        /\ Cardinality(DOMAIN span_map) = NPairs

\* C5 (early exit without tracer): a hook that runs its checks while
\* self.tracer is unset returns at once and leaves the request headers, the
\* response headers, the spans and the registry as they were.
C5_EarlyExitWithoutTracer ==
    [][~tracer =>
         /\ \A p \in Pairs :
              (bpc[p] = "check" /\ bpc'[p] # "check")
              => (bpc'[p] = "done" /\ UNCHANGED <<reqh, resph, span_map, spans, nextId>>)
         /\ \A w \in EndWorkers :
              Leaves(w, "check")
              => (epc'[w] = "idle" /\ UNCHANGED <<reqh, resph, span_map, spans, nextId>>)]_vars

\* With the tracer unset, begin has returned for a complete request that
\* carries a valid context, and end is running on its response.
C5_Witness ==
    /\ ~tracer
    /\ \E p \in Pairs, w \in EndWorkers :
         /\ bpc[p] = "done" /\ ctxs[p] = FullCtx /\ HasValidParent(p)
         /\ reqh[p] = incoming[p] /\ resph[p] = EmptyHeaders
         /\ epc[w] = "check" /\ epair[w] = p

\* C6 (initialization tolerance): while on_platform_ready has not finished,
\* no hook invocation has failed.
C6_InitializationTolerated ==
    ~(tracer /\ propagator)
    => /\ \A p \in Pairs : bpc[p] # "raised"
       /\ \A w \in EndWorkers : epc[w] # "raised"

\* C7 (unregistered key on egress): an end invocation whose traceparent is a
\* valid context that is no key of the registry returns from pop without
\* touching the response headers, the request headers, the spans or the
\* registry.
C7_UnregisteredKeyNoOp ==
    [][\A w \in EndWorkers :
         (/\ Leaves(w, "pop")
          /\ ParseTraceparent(etp[w]) # INVALID_SPAN_CONTEXT
          /\ etp[w] \notin DOMAIN span_map)
         => /\ epc'[w] = "idle"
            /\ UNCHANGED <<resph, reqh, span_map, spans>>]_vars

\* An end invocation is about to pop a valid key that is not registered while
\* the registry holds another pair's entry.
C7_Witness ==
    \E w \in EndWorkers :
        /\ epc[w] = "pop"
        /\ ParseTraceparent(etp[w]) # INVALID_SPAN_CONTEXT
        /\ etp[w] \notin DOMAIN span_map
        /\ DOMAIN span_map # {}

\* C8 (duplicate egress is a no-op): an end invocation started on a response
\* after the pair's entry was retired never obtains a registry entry, so it
\* ends no span and removes nothing.
C8_DuplicateEndNoOp ==
    \A w \in EndWorkers : edup[w] => epc[w] # "finish"

\* C9 (never raising): with the tracer configured, no hook invocation has
\* raised, whatever the headers of the request and of the response.
C9_NeverRaises ==
    tracer => (\A p \in Pairs : bpc[p] # "raised") /\ (\A w \in EndWorkers : epc[w] # "raised")

\* C10 (leak on abort): a pair that completed begin and whose key no end
\* invocation ever called pop with keeps its entry, unchanged, and its span
\* is not ended.
C10_LeakOnAbort ==
    \A p \in Pairs :
        (Begun(p) /\ KeyOf(p) \notin attempted)
        => /\ KeyOf(p) \in DOMAIN span_map
           /\ span_map[KeyOf(p)] = [span |-> bspan[p], ctx |-> btc[p]]
           /\ spans[bspan[p]].ends = 0

\* One pair has been retired, by an end that popped its key, while another
\* pair of the same trace, never handed to end, is still registered.
C10_Witness ==
    \E p, q \in Pairs :
        /\ p # q /\ q \in retired
        /\ Begun(p) /\ KeyOf(p) \notin attempted
        /\ KeyOf(p).tid = KeyOf(q).tid
        /\ KeyOf(p) \in DOMAIN span_map

\* No invocation of finish_request_tracing is running on pair p's response.
NoEndRunning(p) == \A w \in EndWorkers : epc[w] # "idle" => epair[w] # p

\* C11 (registry invariant): every key of span_map is the key of a pair for
\* which add_request_tracing ran through its registration, maps to that
\* pair's span, and has not been popped; a pair whose egress has completed
\* has no key in the registry.
C11_RegistryInvariant ==
    /\ \A k \in DOMAIN span_map :
         /\ k \notin attempted
         /\ \E p \in Pairs :
              Begun(p) /\ KeyOf(p) = k /\ span_map[k].span = bspan[p]
    /\ \A p \in Pairs :
         (p \in egressed /\ NoEndRunning(p)) => KeyOf(p) \notin DOMAIN span_map

\* One pair is registered and waits for its egress, another has completed
\* its egress and is gone from the registry, a state with nothing running.
C11_Witness ==
    /\ \A w \in EndWorkers : epc[w] = "idle"
    /\ \E p, q \in Pairs :
         /\ Begun(p) /\ p \notin egressed /\ KeyOf(p) \in DOMAIN span_map
         /\ Begun(q) /\ q \in egressed /\ KeyOf(q) \in attempted
         /\ DOMAIN span_map = {KeyOf(p)}

\* C12 (begin postcondition): when add_request_tracing returns without an
\* early exit, the request's traceparent is the new span's context, the
\* response's traceparent is the same value, and the registry maps that value
\* to the new span and the context extracted from the request as it arrived
\* (without a span when the request had no valid traceparent); the other
\* entries are as before.
C12_BeginPostcondition ==
    [][\A p \in Pairs :
         (bpc[p] = "put" /\ bpc'[p] = "done")
         => LET k == FormatTraceparent(spans[bspan[p]].sc)
            IN  /\ reqh'[p].traceparent = k
                /\ resph'[p].traceparent = k
                /\ k \in DOMAIN span_map'
                /\ span_map'[k] = [span |-> bspan[p], ctx |-> Extract(incoming[p])]
                /\ ~HasValidParent(p) => span_map'[k].ctx.span = INVALID_SPAN_CONTEXT
                /\ \A j \in DOMAIN span_map' \ {k} :
                     j \in DOMAIN span_map /\ span_map'[j] = span_map[j]]_vars

\* Begin has returned for a request that arrived with a valid parent: request
\* and response carry the new key and the registry holds the parent context.
C12_Witness ==
    \E p \in Pairs :
        /\ Begun(p) /\ p \notin egressed
        /\ incoming[p].traceparent = NonCanonicalTraceparent
        /\ KeyOf(p) = FormatTraceparent(spans[bspan[p]].sc)
        /\ resph[p].traceparent = KeyOf(p)
        /\ KeyOf(p) \in DOMAIN span_map
        /\ span_map[KeyOf(p)].ctx.span = ParseTraceparent(NonCanonicalTraceparent)

\* C13 (root or child): the span begin creates is named
\* "<service>.<operation>" and parented on the extracted context exactly when
\* the request arrived with a valid traceparent; otherwise, header absent or
\* malformed alike, it is named "root" and has no parent.
C13_RootOrChild ==
    \A p \in Pairs :
        bspan[p] # 0
        => IF HasValidParent(p)
           THEN /\ spans[bspan[p]].name = "service.operation"
                /\ spans[bspan[p]].parent = ParseTraceparent(incoming[p].traceparent).sid
                /\ spans[bspan[p]].sc.tid = ParseTraceparent(incoming[p].traceparent).tid
           ELSE /\ spans[bspan[p]].name = "root"
                /\ spans[bspan[p]].parent = 0

\* C14 (missing context on egress): every step of an end invocation on a
\* response without a valid traceparent neither raises nor obtains an entry,
\* and leaves the registry, the spans and the response headers as they were.
C14_MissingContextNoOp ==
    [][\A w \in EndWorkers :
         (/\ epc[w] \in {"check", "extract", "get", "pop"}
          /\ epc'[w] # epc[w]
          /\ ParseTraceparent(resph[epair[w]].traceparent) = INVALID_SPAN_CONTEXT)
         => /\ epc'[w] \notin {"raised", "finish"}
            /\ UNCHANGED <<span_map, spans, resph>>]_vars

\* C15 (early exits on incomplete request data): with the tracer set, a
\* begin whose request, service or operation is missing returns from its
\* checks and leaves request headers, response headers, spans and registry
\* as they were.
C15_EarlyExitIncomplete ==
    [][\A p \in Pairs :
         (tracer /\ bpc[p] = "check" /\ bpc'[p] # "check" /\ ctxs[p] # FullCtx)
         => /\ bpc'[p] = "done"
            /\ UNCHANGED <<reqh, resph, span_map, spans, nextId>>]_vars

\* With tracer and propagator set, begin has returned for a request without
\* service that carries a valid traceparent, nothing was created for it, and
\* begin is at its checks for a request without operation.
C15_Witness ==
    /\ tracer /\ propagator
    /\ \E p, q \in Pairs :
         /\ bpc[p] = "done" /\ ~ctxs[p].service /\ HasValidParent(p)
         /\ bspan[p] = 0 /\ reqh[p] = incoming[p] /\ resph[p] = EmptyHeaders
         /\ bpc[q] = "check" /\ ~ctxs[q].operation

\* C16 (mutation contract): a step of finish_request_tracing changes no
\* request headers, no request context, neither tracer nor propagator, and
\* no response headers but those it was handed; a step of
\* add_request_tracing changes no request context, neither tracer nor
\* propagator, and no headers but those of its own request and response.
C16_MutationContract ==
    [][/\ \A w \in EndWorkers :
            (epc[w] # "idle" /\ epc'[w] # epc[w])
            => /\ UNCHANGED <<reqh, ctxs, tracer, propagator>>
               /\ \A q \in Pairs : q # epair[w] => resph'[q] = resph[q]
       /\ \A p \in Pairs :
            (bpc[p] # "idle" /\ bpc'[p] # bpc[p])
            => /\ UNCHANGED <<ctxs, tracer, propagator>>
               /\ \A q \in Pairs : q # p => (reqh'[q] = reqh[q] /\ resph'[q] = resph[q])]_vars

\* End has rewritten the response of a pair that arrived with a valid parent
\* and baggage-free headers; the request still carries the child context.
C16_Witness ==
    \E p \in Pairs :
        /\ p \in retired /\ HasValidParent(p)
        /\ resph[p].traceparent = CanonicalParent(p)
        /\ reqh[p].traceparent = FormatTraceparent(spans[bspan[p]].sc)
        /\ reqh[p].traceparent # resph[p].traceparent

\* C17 (no premature retirement): a pair that completed begin and whose
\* response has not been handed to end is in the registry and its span has
\* not been ended.
C17_NoPrematureRetirement ==
    \A p \in Pairs :
        (Begun(p) /\ p \notin egressed)
        => /\ KeyOf(p) \in DOMAIN span_map
           /\ spans[bspan[p]].ends = 0

\* C18 (retirement completeness): when no begin is between creating its span
\* and registering it, and every pair that completed begin has had its
\* response handed to end with no end still running on it, the registry is
\* empty and every span has been ended exactly once.
C18_RetirementComplete ==
    (/\ \A p \in Pairs : bpc[p] # "put"
     /\ \A p \in Pairs : Begun(p) => (p \in egressed /\ NoEndRunning(p)))
    => /\ DOMAIN span_map = {}
       /\ \A s \in DOMAIN spans : spans[s].ends = 1

\* Two nested pairs, the second a downstream call of the first, have both
\* completed begin and egress; nothing is running.
C18_Witness ==
    /\ \A w \in EndWorkers : epc[w] = "idle"
    /\ \E p, q \in Pairs :
         /\ p # q /\ Begun(p) /\ Begun(q)
         /\ incoming[q].traceparent = KeyOf(p)
         /\ {p, q} \subseteq egressed
         /\ Cardinality(DOMAIN spans) = NPairs
         /\ \A s \in DOMAIN spans : spans[s].ends = 1

=============================================================================
